---- MODULE Spec2Model ----
(***************************************************************************)
(* A model of python-ca-analysis-bloodflow:                                *)
(*   - SingleFovParser.parse / add_metadata_and_serialize                  *)
(*     (calcium_bflow_analysis/single_fov_analysis.py),                    *)
(*   - SingleFovViz._create_rect_patches (same file),                      *)
(*   - VascOccAnalysis.run (vasc_occ_analysis.py).                         *)
(* AnalogTraceAnalyzer (analog_trace.py) is not among the source files; it *)
(* is modelled from sections 4.1-4.3 of the specification.                 *)
(***************************************************************************)
EXTENDS Integers, Sequences, FiniteSets, TLC

VARIABLES
    \* ---- SingleFovParser (attrs fields) and its environment
    results_fname,      \* the .npz file at results_fname: [F_dff |-> tensor]
    metadata,           \* FluoMetadata: [fname, timestamps]
    with_analog,
    summarize_in_plot,
    analog_fname,       \* the analog file at analog_fname
    analog_data,        \* [tag |-> "unset"] or the analog file as parse read it
    analog_analyzed,    \* [tag |-> "unset"] or the AnalogTraceAnalyzer
    fluo_trace,         \* [tag |-> "unset"] or [tag |-> "ndarray", a |-> rows]
    fluo_analyzed,      \* [tag |-> "unset"], [tag |-> "None"] or a DataArray
    disk,               \* the folder of metadata.fname: file name -> content
    events,             \* the side effects of parse, in order
    pc,                 \* position of the SingleFovParser caller
    ser_calls,          \* number of add_metadata_and_serialize calls made
    ser_result,         \* how the last add_metadata_and_serialize call ended
    \* ---- SingleFovViz
    analog_vectors,     \* [tag |-> "unset"] or [tag |-> "list", l |-> vectors]
    all_patches,        \* the rectangles _create_rect_patches returned
    viz_pc,             \* position of the SingleFovViz caller
    filtered,           \* [tag |-> "unset"] or what filter_da returned
    \* ---- VascOccAnalysis (attrs fields), its folder and the locals of run
    foldername,         \* the files foldername/glob matches, in rglob order
    frames_before_stim,
    len_of_epoch_in_frames,
    invalid_cells,
    all_mice,
    all_data,           \* __calc_dff's list of detrended arrays
    dff,                \* [tag |-> "unset"] or [tag |-> "ndarray", a |-> rows]
    all_spikes,         \* [tag |-> "unset"] or [tag |-> "ndarray", a |-> rows]
    idx_sections,       \* what __find_spikes returned: before, during, after
    split_data,         \* [tag |-> "unset"] or [tag |-> "Series", rows |-> ...]
    plots,              \* the figures saved so far
    run_pc,             \* the stage run() is about to execute
    run_error,          \* the exception that ended run(), if any
    returned,           \* the value run() returned
    find_spikes_calls,  \* how many times __find_spikes was executed
    \* ---- examples/side_by_side.py: the file system and the last call
    files,              \* the paths that exist
    cache,              \* [tag |-> "unset"] or overlay_channels.json's content
    side_args,          \* the arguments of the last call
    side_effects,       \* what the last call did, in order
    side_returned,      \* what the last call returned, or how it ended
    side_calls          \* number of calls of overlay_channels_and_show_traces

fovVars == <<analog_fname, results_fname, metadata, with_analog,
             summarize_in_plot, analog_data, analog_analyzed, fluo_trace, fluo_analyzed, disk, events, pc,
             ser_calls, ser_result>>

sideVars == <<files, cache, side_args, side_effects, side_returned, side_calls>>

vizVars == <<analog_vectors, all_patches, viz_pc, filtered>>

vascVars == <<foldername, frames_before_stim, len_of_epoch_in_frames,
              invalid_cells, all_mice, all_data, dff, all_spikes, idx_sections, split_data,
              plots, run_pc, run_error, returned, find_spikes_calls>>

-----------------------------------------------------------------------------
(* Bounds of the model *)

MaxCells == 2
MaxFrames == 2
SamplesPerFrame == 2
MaxSerializeCalls == 2
MaxVecLen == 4
MaxFiles == 2
MaxCellsPerFile == 2
MaxInvalid == 2
TraceLen == 11
FramesBeforeStim == 3
LenOfEpochInFrames == 4
MaxFindSpikesCalls == 2

-----------------------------------------------------------------------------
(* dF/F values: a real number or NaN (the missing marker) *)

NaN == [nan |-> TRUE, v |-> 0]
Val(x) == [nan |-> FALSE, v |-> x]
IsNaN(x) == x.nan

\* IEEE multiplication as numpy does it: NaN is absorbing
Times(a, b) == IF a.nan \/ b.nan THEN NaN ELSE Val(a.v * b.v)

\* np.nan_to_num on a 1/NaN vector
NanToNum(vec) == [i \in 1..Len(vec) |-> IF IsNaN(vec[i]) THEN 0 ELSE vec[i].v]

-----------------------------------------------------------------------------
(* The dF/F tensors the results file may hold: cell x frame *)

TensorKinds == {"index", "zero", "nan"}

\* a tensor of pairwise distinct positive values, a tensor of measured zeros,
\* or the first one with NaN at the first frame of the first cell
Tensor(kind, cells, frames) ==
    [n \in 1..cells |-> [t \in 1..frames |->
        CASE kind = "index" -> Val(n * (MaxFrames + 2) + t)
          [] kind = "zero"  -> Val(0)
          [] kind = "nan"   -> IF n = 1 /\ t = 1 THEN NaN
                               ELSE Val(n * (MaxFrames + 2) + t)]]

\* up to MaxCells cells of distinct values, with or without a NaN, and one
\* cell of measured zeros
Tensors(frames) ==
    { Tensor(k, c, frames) : k \in TensorKinds \ {"zero"}, c \in 0..MaxCells }
        \cup { Tensor("zero", 1, frames) }

\* ndarray.shape and ndarray.size of a 2-D array kept as rows
NumCells(a) == Len(a)
NumFrames(a) == IF Len(a) = 0 THEN 0 ELSE Len(a[1])
Size(a) == NumCells(a) * NumFrames(a)

\* bool(ndarray): an empty array is False (a ValueError from numpy 2.2 on),
\* a one-element array is its element, anything larger raises ValueError
TruthValues(a) ==
    IF Size(a) = 0 THEN {"False", "ValueError"}
    ELSE IF Size(a) = 1
         THEN (IF IsNaN(a[1][1]) \/ a[1][1].v # 0 THEN {"True"} ELSE {"False"})
         ELSE {"ValueError"}

\* lines 50-54: `if not self.fluo_trace: self.fluo_trace = np.array([])`
\* inside try / except ValueError: pass
AfterTruthTest(a, tv) == IF tv = "False" THEN << >> ELSE a

-----------------------------------------------------------------------------
(* File names are sequences of characters; the folder holds files by name *)

TifExt == <<".", "t", "i", "f">>
NcExt == <<".", "n", "c">>
SummarySuffix == <<"_", "s", "u", "m", "m", "a", "r", "y", ".", "p", "d", "f">>

FovNames == { <<"f", "1">> \o TifExt, <<"f", "[", "1", "]">> \o TifExt }

\* str(fname)[:-4]
DropLast4(name) == SubSeq(name, 1, Len(name) - 4)

\* the persisted file name: str(self.metadata.fname)[:-4] + ".nc"
NcName(fname) == DropLast4(fname) \o NcExt

\* fnmatch's character class: the index of the closing "]" of the class
\* opened at pat[1] = "[", or 0 when there is none (then "[" is literal)
RECURSIVE FindClose(_, _)
FindClose(pat, j) ==
    IF j > Len(pat) THEN 0
    ELSE IF pat[j] = "]" THEN j
    ELSE FindClose(pat, j + 1)

ClassClose(pat) ==
    LET j1 == IF Len(pat) >= 2 /\ pat[2] = "!" THEN 3 ELSE 2
        j2 == IF j1 <= Len(pat) /\ pat[j1] = "]" THEN j1 + 1 ELSE j1
    IN FindClose(pat, j2)

\* fnmatch.fnmatchcase(name, pat), as pathlib's glob applies it per file
RECURSIVE FnMatch(_, _)
FnMatch(name, pat) ==
    IF pat = << >> THEN name = << >>
    ELSE LET c == Head(pat) IN
      CASE c = "*" ->
             \E k \in 0..Len(name) :
                FnMatch(SubSeq(name, k + 1, Len(name)), Tail(pat))
        [] c = "?" -> name # << >> /\ FnMatch(Tail(name), Tail(pat))
        [] c = "[" /\ ClassClose(pat) # 0 ->
             LET e == ClassClose(pat)
                 neg == pat[2] = "!"
                 stuff == SubSeq(pat, IF neg THEN 3 ELSE 2, e - 1)
                 inClass == \E i \in 1..Len(stuff) : stuff[i] = Head(name)
             IN /\ name # << >>
                /\ (IF neg THEN ~inClass ELSE inClass)
                /\ FnMatch(Tail(name), SubSeq(pat, e + 1, Len(pat)))
        [] OTHER -> name # << >> /\ Head(name) = c
                    /\ FnMatch(Tail(name), Tail(pat))

\* Path(fname).parent.glob(pattern): the files of the folder that match
Glob(folder, pattern) == { n \in DOMAIN folder : FnMatch(n, pattern) }

\* writing a file creates it or replaces its content
WriteFile(folder, name, content) ==
    [n \in (DOMAIN folder) \cup {name} |->
        IF n = name THEN content ELSE folder[n]]

-----------------------------------------------------------------------------
(* AnalogTraceAnalyzer, from sections 4.1-4.3 of the specification.        *)
(* Analog samples and imaging frames are numbered from 0; a bout is a      *)
(* closed-open interval <<start, end>> of analog samples.                  *)

MinBoutDuration == 2

\* the thresholded channel as a 0/1 vector: sample i is vec[i + 1]
Sample(vec, i) == vec[i + 1]

\* 4.2 step 1: a bout starts where the signal goes 0 -> 1 (or is active at
\* the first sample) and ends where it goes 1 -> 0; a bout still open at
\* the end of the trace is closed at the last sample (its end is the
\* length of the trace, so the last sample belongs to it)
DetectBouts(vec) ==
    LET n == Len(vec)
        IsStart(s) == Sample(vec, s) = 1 /\ (s = 0 \/ Sample(vec, s - 1) = 0)
        Falls(s) == { e \in (s + 1)..n : e = n \/ Sample(vec, e) = 0 }
        EndOf(s) == CHOOSE e \in Falls(s) : \A f \in Falls(s) : e <= f
    IN { <<s, EndOf(s)>> : s \in { i \in 0..(n - 1) : IsStart(i) } }

\* 4.2 step 1: bouts shorter than the minimum duration are discarded
KeptBouts(vec) == { b \in DetectBouts(vec) : b[2] - b[1] >= MinBoutDuration }

\* 4.2 step 2: an imaging timestamp (in frame periods from the shared time
\* origin) as an analog sample index, clamped to the trace
SampleOfFrame(ts, rate, nSamples) ==
    LET i == ts * rate
    IN IF i < 0 THEN 0 ELSE IF i > nSamples - 1 THEN nSamples - 1 ELSE i

\* a variant with closed intervals: the end sample belongs to the bout
ActiveAtClosed(bouts, sample) ==
    \E b \in bouts : b[1] <= sample /\ sample <= b[2]

\* 4.2 step 3: membership of a frame in the channel's bouts, closed-open
ActiveAt(bouts, sample) ==
    \E b \in bouts : b[1] <= sample /\ sample < b[2]

\* the per-frame vector of a channel: 1 inside a bout, NaN outside
FrameVec(vec, rate, timestamps) ==
    LET bouts == KeptBouts(vec)
    IN [t \in 1..Len(timestamps) |->
          IF ActiveAt(bouts, SampleOfFrame(timestamps[t], rate, Len(vec)))
          THEN Val(1) ELSE NaN]

\* AnalogTraceAnalyzer(...) followed by .run()
AnalogTraceAnalyzer(analog_trace, timestamps) ==
    [tag |-> "AnalogTraceAnalyzer",
     stim_vec |-> FrameVec(analog_trace.stimulus, analog_trace.rate, timestamps),
     juxta_vec |-> FrameVec(analog_trace.juxta, analog_trace.rate, timestamps),
     run_vec |-> FrameVec(analog_trace.run, analog_trace.rate, timestamps),
     occluder |-> FALSE]

\* 4.2 steps 3-4: the label of a frame; juxta > stim > spont
Locomotion(an, t) == IF ~IsNaN(an.run_vec[t]) THEN "run" ELSE "stand"

StimState(an, t) ==
    IF ~IsNaN(an.juxta_vec[t]) THEN "juxta"
    ELSE IF ~IsNaN(an.stim_vec[t]) THEN "stim"
    ELSE "spont"

\* "_".join(epoch)
Join(pair) == pair[1] \o "_" \o pair[2]

FrameLabel(an, t) == Join(<<Locomotion(an, t), StimState(an, t)>>)

\* itertools.product(a, b) as a list
Product(a, b) ==
    [i \in 1..(Len(a) * Len(b)) |->
        <<a[((i - 1) \div Len(b)) + 1], b[((i - 1) % Len(b)) + 1]>>]

\* a variant of the epoch names that lacks the juxta state
all_epochs_no_juxta == Product(<<"stand", "run">>, <<"stim", "spont">>)

\* the epoch names: the cross product of locomotion and stimulus state
all_epochs == Product(<<"stand", "run">>, <<"stim", "spont", "juxta">>)

epochs_to_display == [i \in 1..Len(all_epochs) |-> Join(all_epochs[i])]

\* np.arange(n)
Arange(n) == [i \in 1..n |-> i - 1]

\* a rational number, for times in seconds and the stimulus window
Frac(num, den) == [num |-> num, den |-> den]

\* 4.3: analog_analyzed * fluo_trace scatters the dF/F values of the frames
\* of each epoch into that epoch's slice and pads the rest with NaN
AnalogMul(an, other, md) ==
    [tag |-> "DataArray",
     dims |-> <<"epoch", "neuron", "time">>,
     coords |-> [epoch |-> epochs_to_display,
                 neuron |-> Arange(NumCells(other)),
                 time |-> md.timestamps],
     data |-> [e \in 1..Len(epochs_to_display) |->
                [n \in 1..NumCells(other) |->
                  [t \in 1..NumFrames(other) |->
                     Times(other[n][t],
                           IF FrameLabel(an, t) = epochs_to_display[e]
                           THEN Val(1) ELSE NaN)]]],
     attrs |-> [fps |-> md.fps, stim_window |-> Frac(3, 2)]]

\* the analog files read for a recording of the given number of frames: the
\* stimulus and juxta channels active over any set of whole frames, the run
\* channel active over the first k frames or for one sample only (a blip)
WholeFrames(frames, on) ==
    [i \in 1..(frames * SamplesPerFrame) |->
        IF ((i - 1) \div SamplesPerFrame) + 1 \in on THEN 1 ELSE 0]

Blip(frames) == [i \in 1..(frames * SamplesPerFrame) |-> IF i = 1 THEN 1 ELSE 0]

ChannelVectors(frames) == { WholeFrames(frames, on) : on \in SUBSET (1..frames) }

RunVectors(frames) ==
    { WholeFrames(frames, 1..k) : k \in 0..frames } \cup {Blip(frames)}

\* an analog file with no activity in any channel
QuietFile(frames) ==
    [tag |-> "DataFrame", rate |-> SamplesPerFrame,
     stimulus |-> WholeFrames(frames, {}), juxta |-> WholeFrames(frames, {}),
     run |-> WholeFrames(frames, {})]

\* read_csv (lines 60-65) names the columns stimulus and run; the juxta
\* intervals the analyzer tells apart are kept here as a channel of their own,
\* and rate is the known number of analog samples per imaging frame
AnalogFiles(frames) ==
    [tag : {"DataFrame"},
     rate : {SamplesPerFrame},
     stimulus : ChannelVectors(frames),
     juxta : ChannelVectors(frames),
     run : RunVectors(frames)]

-----------------------------------------------------------------------------
(* SingleFovParser *)

Unset == [tag |-> "unset"]
None == [tag |-> "None"]

\* lines 76-86: the DataArray of the branch without analog data;
\* np.atleast_3d appends the epoch axis to the cell x frame array
\* a variant that replaces not-a-number inputs by zero before wrapping
SpontArrayNanToNum(trace, md) ==
    [tag |-> "DataArray",
     dims |-> <<"neuron", "time", "epoch">>,
     coords |-> [neuron |-> Arange(NumCells(trace)),
                 time |-> [t \in 1..NumFrames(trace) |-> Frac(t - 1, md.fps)],
                 epoch |-> <<"spont">>],
     data |-> [n \in 1..NumCells(trace) |-> [t \in 1..NumFrames(trace) |->
                 <<IF IsNaN(trace[n][t]) THEN Val(0) ELSE trace[n][t]>>]],
     attrs |-> [fps |-> md.fps, stim_window |-> Frac(3, 2)]]

SpontArray(trace, md) ==
    [tag |-> "DataArray",
     dims |-> <<"neuron", "time", "epoch">>,
     coords |-> [neuron |-> Arange(NumCells(trace)),
                 time |-> [t \in 1..NumFrames(trace) |-> Frac(t - 1, md.fps)],
                 epoch |-> <<"spont">>],
     data |-> [n \in 1..NumCells(trace) |->
                [t \in 1..NumFrames(trace) |-> <<trace[n][t]>>]],
     attrs |-> [fps |-> md.fps, stim_window |-> Frac(3, 2)]]

\* lines 60-74: read the analog file, build and run the analyzer, multiply
ParseWithAnalog(trace, csv) ==
    LET an == AnalogTraceAnalyzer(csv, metadata.timestamps)
    IN /\ analog_data' = csv
       /\ analog_analyzed' = an
       /\ fluo_analyzed' = AnalogMul(an, trace, metadata)
       /\ IF summarize_in_plot
          \* lines 87-89 and draw(): the figure is saved beside the recording
          THEN /\ events' = events \o <<"read_csv", "AnalogTraceAnalyzer",
                                        "run", "SingleFovViz", "draw">>
               /\ disk' = WriteFile(disk,
                                    DropLast4(metadata.fname) \o SummarySuffix,
                                    [tag |-> "figure"])
          ELSE /\ events' = events \o <<"read_csv", "AnalogTraceAnalyzer", "run">>
               /\ UNCHANGED disk
       /\ pc' = "parsed"

\* lines 76-89: SingleFovViz(self) reads self.fov.analog_analyzed, which this
\* branch never assigned, so with summarize_in_plot parse raises
ParseWithoutAnalog(trace) ==
    /\ fluo_analyzed' = SpontArray(trace, metadata)
    /\ IF summarize_in_plot
       THEN /\ events' = events \o <<"SingleFovViz">>
            /\ pc' = "parse_raised"
       ELSE /\ UNCHANGED events
            /\ pc' = "parsed"
    /\ UNCHANGED <<analog_data, analog_analyzed, disk>>

\* a variant that tests the number of cells only when no analog data is used
NoCellsUnlessAnalog(trace) == NumCells(trace) = 0 /\ ~with_analog

\* line 55: self.fluo_trace.shape[0] == 0
NoCells(trace) == NumCells(trace) = 0

\* lines 46-89
Parse ==
    /\ pc = "constructed"
    /\ \E tv \in TruthValues(results_fname.F_dff) :
         LET trace == AfterTruthTest(results_fname.F_dff, tv)
         IN /\ fluo_trace' = [tag |-> "ndarray", a |-> trace]
            /\ IF NoCells(trace)
               THEN /\ fluo_analyzed' = None
                    /\ pc' = "parsed"
                    /\ UNCHANGED <<analog_data, analog_analyzed, events, disk>>
               ELSE IF with_analog
                    THEN ParseWithAnalog(trace, analog_fname)
                    ELSE ParseWithoutAnalog(trace)
    /\ UNCHANGED <<analog_fname, results_fname, metadata, with_analog,
                   summarize_in_plot, ser_calls, ser_result>>

\* the shape of a 3-D array kept as nested sequences
Shape3(data) ==
    IF Len(data) = 0 THEN <<0, 0, 0>>
    ELSE IF Len(data[1]) = 0 THEN <<Len(data), 0, 0>>
    ELSE <<Len(data), Len(data[1]), Len(data[1][1])>>

SerializedDims == <<"epoch", "neuron", "time", "mouse_id", "fov", "condition">>

\* lines 109-125: raw_data[..., np.newaxis, np.newaxis, np.newaxis] labelled
\* positionally with coords.keys(); xarray raises ValueError when the length
\* of an axis differs from the length of the coordinate given for it
NewDataArray(fa, md) ==
    LET shape == Shape3(fa.data) \o <<1, 1, 1>>
        coords == [epoch |-> fa.coords.epoch,
                   neuron |-> fa.coords.neuron,
                   time |-> md.timestamps,
                   mouse_id |-> <<md.mouse_id>>,
                   fov |-> <<md.fov>>,
                   condition |-> <<md.condition>>]
    IN IF \E i \in 1..6 : shape[i] # Len(coords[SerializedDims[i]])
       THEN [tag |-> "ValueError"]
       ELSE [tag |-> "DataArray",
             dims |-> SerializedDims,
             shape |-> shape,
             coords |-> coords,
             data |-> fa.data,
             attrs |-> [day |-> <<md.day>>, fps |-> md.fps,
                        stim_window |-> fa.attrs.stim_window]]

\* lines 97-101: the glob pattern for the persisted file
NcPattern(fname) == DropLast4(fname) \o NcExt

\* a variant without the except AttributeError clause of lines 105-107
SerializeOutcomeNoHandler(folder, fa, md) ==
    IF Glob(folder, NcPattern(md.fname)) # {} THEN "exists"
    ELSE IF fa.tag # "DataArray" THEN "AttributeError"
    ELSE IF NewDataArray(fa, md).tag = "ValueError" THEN "ValueError"
    ELSE "written"

\* lines 96-126: how the call ends. "exists": a file matched the pattern, the
\* call returns; "no_data": None (or an unassigned slot) has no .data, the
\* AttributeError is caught and the call returns; "ValueError": the DataArray
\* constructor raised; "written": to_netcdf is reached
SerializeOutcome(folder, fa, md) ==
    IF Glob(folder, NcPattern(md.fname)) # {} THEN "exists"
    ELSE IF fa.tag # "DataArray" THEN "no_data"
    ELSE IF NewDataArray(fa, md).tag = "ValueError" THEN "ValueError"
    ELSE "written"

\* src/single_fov_analysis.py, lines 24-38: the earlier parse reads both files
\* and runs the analyzer first, and assigns fluo_analyzed only when there are
\* cells; fluo_fname is the file called results_fname here
ParseLegacy ==
    /\ pc = "constructed"
    /\ LET trace == results_fname.F_dff
           an == AnalogTraceAnalyzer(analog_fname, metadata.timestamps)
       IN /\ fluo_trace' = [tag |-> "ndarray", a |-> trace]
          /\ analog_data' = analog_fname
          /\ analog_analyzed' = an
          /\ events' = events \o <<"read_table", "AnalogTraceAnalyzer", "run">>
          /\ fluo_analyzed' = IF NumCells(trace) # 0
                              THEN AnalogMul(an, trace, metadata)
                              ELSE fluo_analyzed
    /\ pc' = "legacy_parsed"
    /\ UNCHANGED <<analog_fname, results_fname, metadata, with_analog,
                   summarize_in_plot, disk, ser_calls, ser_result>>

\* lines 91-128
AddMetadataAndSerialize ==
    /\ pc = "parsed"
    /\ ser_calls < MaxSerializeCalls
    /\ ser_calls' = ser_calls + 1
    /\ ser_result' = SerializeOutcome(disk, fluo_analyzed, metadata)
    /\ disk' = IF ser_result' = "written"
               THEN WriteFile(disk, NcName(metadata.fname),
                              NewDataArray(fluo_analyzed, metadata))
               ELSE disk
    /\ UNCHANGED <<analog_fname, results_fname, metadata, with_analog,
                   summarize_in_plot, analog_data, analog_analyzed, fluo_trace,
                   fluo_analyzed, events, pc>>

\* the folder before the run: any of the persisted files may already be there
EarlierFile == [tag |-> "earlier"]

\* the folder before the recording is parsed: empty, or holding one file
\* persisted earlier
InitialDisks ==
    {<< >>} \cup { [names \in {NcName(f)} |-> EarlierFile] : f \in FovNames }

InitFov ==
    /\ \E frames \in 1..MaxFrames :
         /\ results_fname \in [F_dff : Tensors(frames)]
         /\ \E f \in FovNames :
              metadata = [fname |-> f, timestamps |-> Arange(frames), fps |-> 30,
                          mouse_id |-> "m1", fov |-> 1, condition |-> "HYPER",
                          day |-> 14]
         /\ with_analog \in BOOLEAN
         /\ analog_fname \in (IF with_analog THEN AnalogFiles(frames)
                               ELSE {QuietFile(frames)})
    /\ summarize_in_plot \in BOOLEAN
    /\ analog_data = Unset
    /\ analog_analyzed = Unset
    /\ fluo_trace = Unset
    /\ fluo_analyzed = Unset
    /\ disk \in InitialDisks
    /\ events = << >>
    /\ pc = "constructed"
    /\ ser_calls = 0
    /\ ser_result = "none"

\* section 8, example 7: 100 frames, three cells at most, and an analog trace
\* of 1000 samples, 10 per frame from a shared origin, with one run bout
\* [300, 600) and one stimulus bout [400, 500)
ExampleFrames == 100
ExampleCells == 3

ExampleAnalog ==
    [tag |-> "DataFrame",
     rate |-> 10,
     stimulus |-> [i \in 1..(10 * ExampleFrames) |->
                     IF 400 <= i - 1 /\ i - 1 < 500 THEN 1 ELSE 0],
     juxta |-> [i \in 1..(10 * ExampleFrames) |-> 0],
     run |-> [i \in 1..(10 * ExampleFrames) |->
                IF 300 <= i - 1 /\ i - 1 < 600 THEN 1 ELSE 0]]

InitExample ==
    /\ \E cells \in 1..ExampleCells, kind \in TensorKinds \ {"zero"} :
          results_fname = [F_dff |-> Tensor(kind, cells, ExampleFrames)]
    /\ \E f \in FovNames :
          metadata = [fname |-> f, timestamps |-> Arange(ExampleFrames),
                      fps |-> 30, mouse_id |-> "m1", fov |-> 1,
                      condition |-> "HYPER", day |-> 14]
    /\ with_analog = TRUE
    /\ analog_fname = ExampleAnalog
    /\ summarize_in_plot \in BOOLEAN
    /\ analog_data = Unset
    /\ analog_analyzed = Unset
    /\ fluo_trace = Unset
    /\ fluo_analyzed = Unset
    /\ disk \in InitialDisks
    /\ events = << >>
    /\ pc = "constructed"
    /\ ser_calls = 0
    /\ ser_result = "none"

NextFov ==
    \/ Parse /\ UNCHANGED <<vizVars, vascVars, sideVars>>
    \/ AddMetadataAndSerialize /\ UNCHANGED <<vizVars, vascVars, sideVars>>

-----------------------------------------------------------------------------
(* SingleFovViz *)

\* lines 151-163: the analyzer's vectors with NaN turned into 0
\* (the modelled analyzer has no occluder channel)
VizPostInit ==
    /\ viz_pc = "new"
    /\ analog_analyzed.tag = "AnalogTraceAnalyzer"
    /\ analog_vectors' =
         [tag |-> "list",
          l |-> <<NanToNum(analog_analyzed.stim_vec),
                  NanToNum(analog_analyzed.juxta_vec),
                  NanToNum(analog_analyzed.run_vec)>>]
    /\ viz_pc' = "constructed"
    /\ UNCHANGED <<all_patches, filtered>>

\* np.diff(np.concatenate((vec, [0]))); element i of the result is Diff[i + 1]
Diff(vec) ==
    LET ext == vec \o <<0>>
    IN [i \in 1..Len(vec) |-> ext[i + 1] - ext[i]]

\* np.where(d == x)[0]: the indices (from 0), ascending
Where(d, x) == SelectSeq(Arange(Len(d)), LAMBDA i : d[i + 1] = x)

\* zip(a, b)
Zip(a, b) ==
    [i \in 1..(IF Len(a) < Len(b) THEN Len(a) ELSE Len(b)) |-> <<a[i], b[i]>>]

\* lines 215-219: the (start, end) pairs of one vector
StartEndPairs(vec) == Zip(Where(Diff(vec), 1), Where(Diff(vec), -1))

\* lines 219-229: one Rectangle per pair, coloured by the vector's index
Patches(vec, idx, fps) ==
    LET pairs == StartEndPairs(vec)
    IN [i \in 1..Len(pairs) |->
          [x |-> Frac(pairs[i][1], fps),
           width |-> Frac(pairs[i][2] - pairs[i][1], fps),
           color |-> idx]]

RECURSIVE PatchesFrom(_, _, _)
PatchesFrom(vectors, idx, fps) ==
    IF idx > Len(vectors) THEN << >>
    ELSE Patches(vectors[idx], idx - 1, fps) \o PatchesFrom(vectors, idx + 1, fps)

\* lines 199-230
CreateRectPatches ==
    /\ viz_pc = "constructed"
    /\ all_patches' = PatchesFrom(analog_vectors.l, 1, metadata.fps)
    /\ viz_pc' = "patched"
    /\ UNCHANGED <<analog_vectors, filtered>>

\* np.isfinite
IsFinite(x) == ~IsNaN(x)

\* data.sel(epoch=epoch, drop=True).values: the cell x time values of the
\* epoch, whatever the order of the array's dimensions
SelEpoch(data, epoch) ==
    LET e == CHOOSE i \in 1..Len(data.coords.epoch) :
                data.coords.epoch[i] = epoch
    IN [n \in 1..Len(data.coords.neuron) |->
         [t \in 1..Len(data.coords.time) |->
            IF data.dims[1] = "epoch" THEN data.data[e][n][t]
            ELSE data.data[n][t][e]]]

\* np.squeeze of a cell x time array: every axis of length 1 is removed
Squeeze(m) ==
    LET cells == Len(m)
        times == Len(m[1])
    IN IF cells = 1 /\ times = 1 THEN [ndim |-> 0, a |-> m[1][1]]
       ELSE IF cells = 1 THEN [ndim |-> 1, a |-> m[1]]
       ELSE IF times = 1 THEN [ndim |-> 1, a |-> [n \in 1..cells |-> m[n][1]]]
       ELSE [ndim |-> 2, a |-> m]

\* np.atleast_2d: a scalar becomes 1 x 1, a vector of length L becomes 1 x L
AtLeast2d(x) ==
    IF x.ndim = 0 THEN << <<x.a>> >>
    ELSE IF x.ndim = 1 THEN <<x.a>>
    ELSE x.a

\* np.isfinite(selected).any(axis=1), row by row
AnyFinite(row) == \E t \in 1..Len(row) : IsFinite(row[t])

\* lines 293-310 with condition=None; the result with its shape
filter_da(data, epoch) ==
    LET selected == AtLeast2d(Squeeze(SelEpoch(data, epoch)))
        kept == SelectSeq(selected, AnyFinite)
    IN IF Len(kept) > 0
       THEN [tag |-> "ndarray", shape |-> <<Len(kept), Len(selected[1])>>,
             a |-> kept]
       ELSE [tag |-> "ndarray", shape |-> <<0>>, a |-> << >>]

\* filter_da(fov.fluo_analyzed, epoch=epoch) for an epoch of the array, as
\* _summarize_stats_in_epochs (line 275) calls it
FilterDa ==
    /\ pc = "parsed"
    /\ fluo_analyzed.tag = "DataArray"
    /\ filtered = Unset
    /\ \E i \in 1..Len(fluo_analyzed.coords.epoch) :
          filtered' = [epoch |-> fluo_analyzed.coords.epoch[i],
                       out |-> filter_da(fluo_analyzed,
                                         fluo_analyzed.coords.epoch[i])]
    /\ UNCHANGED <<analog_vectors, all_patches, viz_pc>>

NextViz ==
    \/ VizPostInit /\ UNCHANGED <<fovVars, vascVars, sideVars>>
    \/ CreateRectPatches /\ UNCHANGED <<fovVars, vascVars, sideVars>>

\* the 1/NaN vectors an analyzer holds for a recording of the given length
FrameVectors(frames) == [1..frames -> {Val(1), NaN}]

InitVizIdle ==
    /\ analog_vectors = Unset
    /\ all_patches = << >>
    /\ viz_pc = "none"
    /\ filtered = Unset

\* a SingleFovViz is built on a parsed FOV with analog data
InitViz ==
    /\ \E frames \in 1..MaxVecLen :
         /\ analog_analyzed \in [tag : {"AnalogTraceAnalyzer"},
                                 stim_vec : FrameVectors(frames),
                                 juxta_vec : FrameVectors(frames),
                                 run_vec : FrameVectors(frames),
                                 occluder : {FALSE}]
         /\ metadata = [fname |-> <<"f", "1">> \o TifExt,
                        timestamps |-> Arange(frames), fps |-> 30,
                        mouse_id |-> "m1", fov |-> 1, condition |-> "HYPER",
                        day |-> 14]
    /\ results_fname = [F_dff |-> << >>]
    /\ with_analog = TRUE
    /\ summarize_in_plot = TRUE
    /\ analog_fname = Unset
    /\ analog_data = Unset
    /\ fluo_trace = Unset
    /\ fluo_analyzed = Unset
    /\ disk = << >>
    /\ events = << >>
    /\ pc = "viz"
    /\ ser_calls = 0
    /\ ser_result = "none"
    /\ analog_vectors = Unset
    /\ all_patches = << >>
    /\ viz_pc = "new"
    /\ filtered = Unset

-----------------------------------------------------------------------------
(* VascOccAnalysis *)

\* line 67: thresh = 0.65, as a percentage; line 68: min_dist = 7
ThreshPercent == 65
MinDist == 7

\* the dF/F traces detrending yields: zero baseline with peaks of the given
\* heights at the given frames (numbered from 0)
TraceOf(peaks) ==
    [t \in 1..TraceLen |-> IF (t - 1) \in DOMAIN peaks THEN peaks[t - 1] ELSE 0]

TracePalette ==
    << TraceOf(1 :> 3),                      \* one spike before the stimulus
       TraceOf(FramesBeforeStim + 1 :> 3),   \* one spike during it
       TraceOf(TraceLen - 2 :> 3),           \* one spike after it
       TraceOf(1 :> 3 @@ (TraceLen - 2) :> 3),   \* two spikes far apart
       TraceOf(FramesBeforeStim + 1 :> 3 @@ (FramesBeforeStim + 3) :> 2),
                                             \* two closer than min_dist
       TraceOf(1 :> 3 @@ (TraceLen - 2) :> 1),  \* the second below thresh
       TraceOf(1 :> 3 @@ 4 :> 3) >>          \* two equal ones closer than min_dist

\* the trace of a silent cell
FlatTrace == TraceOf(<< >>)

\* the result files of the folder: a file either fails to load or detrend,
\* or yields one dF/F row per cell
FileCells(i, c) ==
    [j \in 1..c |-> TracePalette[((2 * i + j) % Len(TracePalette)) + 1]]

\* a cell whose one spike sits on the first frame of a section: of the
\* stimulus epoch in odd files, of the epoch after it in even ones
EdgeTrace(i) ==
    IF i % 2 = 1 THEN TraceOf(FramesBeforeStim :> 3)
    ELSE TraceOf((FramesBeforeStim + LenOfEpochInFrames) :> 3)

FilesAt(i) ==
    {[name |-> i, ok |-> FALSE, cells |-> << >>]}
    \cup {[name |-> i, ok |-> TRUE, cells |-> FileCells(i, c)] : c \in 1..MaxCellsPerFile}
    \cup {[name |-> i, ok |-> TRUE, cells |-> <<FlatTrace>>]}
    \cup {[name |-> i, ok |-> TRUE, cells |-> <<EdgeTrace(i)>>]}

Folders ==
    UNION { {f \in [1..k -> UNION {FilesAt(i) : i \in 1..MaxFiles}] :
                \A i \in 1..k : f[i] \in FilesAt(i)} : k \in 0..MaxFiles }

\* lines 37-48
FindAllFiles ==
    /\ run_pc = "find_all_files"
    /\ all_mice' = [i \in 1..Len(foldername) |-> foldername[i].name]
    /\ all_data' = << >>
    /\ run_pc' = "calc_dff"
    /\ UNCHANGED <<foldername, frames_before_stim, len_of_epoch_in_frames,
                   invalid_cells, dff, all_spikes, idx_sections, split_data,
                   plots, run_error, returned,
                   find_spikes_calls>>

\* lines 56-60: one pass of the loop; np.load or detrend_df_f_auto raising
\* leaves the loop and run()
CalcDffFile ==
    /\ run_pc = "calc_dff"
    /\ Len(all_data) < Len(foldername)
    /\ LET file == foldername[Len(all_data) + 1]
       IN IF file.ok
          THEN /\ all_data' = Append(all_data, file.cells)
               /\ UNCHANGED <<run_pc, run_error>>
          ELSE /\ run_pc' = "raised"
               /\ run_error' = [stage |-> "calc_dff", kind |-> "LoadError",
                                file |-> file.name]
               /\ UNCHANGED all_data
    /\ UNCHANGED <<foldername, frames_before_stim, len_of_epoch_in_frames,
                   invalid_cells, all_mice, dff, all_spikes, idx_sections,
                   split_data, plots, returned,
                   find_spikes_calls>>

\* np.concatenate along the cell axis
RECURSIVE Concatenate(_)
Concatenate(arrays) ==
    IF arrays = << >> THEN << >> ELSE Head(arrays) \o Concatenate(Tail(arrays))

\* line 61: np.concatenate of an empty list raises ValueError
CalcDffConcat ==
    /\ run_pc = "calc_dff"
    /\ Len(all_data) = Len(foldername)
    /\ IF all_data = << >>
       THEN /\ run_pc' = "raised"
            /\ run_error' = [stage |-> "calc_dff", kind |-> "ValueError",
                             file |-> 0]
            /\ UNCHANGED dff
       ELSE /\ dff' = [tag |-> "ndarray", a |-> Concatenate(all_data)]
            /\ run_pc' = "find_spikes"
            /\ UNCHANGED run_error
    /\ UNCHANGED <<foldername, frames_before_stim, len_of_epoch_in_frames,
                   invalid_cells, all_mice, all_data, all_spikes, idx_sections,
                   split_data, plots, returned,
                   find_spikes_calls>>

\* peakutils.indexes(y, thres, min_dist) ------------------------------------

SeqMax(y) == CHOOSE m \in {y[i] : i \in 1..Len(y)} : \A i \in 1..Len(y) : y[i] <= m
SeqMin(y) == CHOOSE m \in {y[i] : i \in 1..Len(y)} : \A i \in 1..Len(y) : m <= y[i]

\* y > thres * (max - min) + min
AboveThresh(y, v) ==
    100 * (v - SeqMin(y)) > ThreshPercent * (SeqMax(y) - SeqMin(y))

\* np.diff(y): element k of the result is Dy[k + 1]
Dy(y) == [k \in 1..(Len(y) - 1) |-> y[k + 1] - y[k]]

\* the zero runs of dy take the slope at their left (first half) or right
\* (second half and middle); a run at either end takes its inner neighbour
FilledDy(y) ==
    LET dy == Dy(y)
        n == Len(dy)
        First(k) == CHOOSE a \in 1..k :
                       /\ \A j \in a..k : dy[j] = 0
                       /\ (a = 1 \/ dy[a - 1] # 0)
        Last(k) == CHOOSE b \in k..n :
                       /\ \A j \in k..b : dy[j] = 0
                       /\ (b = n \/ dy[b + 1] # 0)
    IN [k \in 1..n |->
          IF dy[k] # 0 THEN dy[k]
          ELSE IF First(k) = 1 THEN dy[Last(k) + 1]
          ELSE IF Last(k) = n THEN dy[First(k) - 1]
          ELSE IF 2 * k < First(k) + Last(k) THEN dy[First(k) - 1]
          ELSE dy[Last(k) + 1]]

IsFlat(y) == \A k \in 1..(Len(y) - 1) : y[k + 1] = y[k]

\* the frames (from 0) where the slope turns from rising to falling and the
\* value is above the threshold
RawPeaks(y) ==
    IF IsFlat(y) THEN {}
    ELSE { i \in 1..(Len(y) - 2) :
             /\ FilledDy(y)[i + 1] < 0
             /\ FilledDy(y)[i] > 0
             /\ AboveThresh(y, y[i + 1]) }

\* a variant whose order among equal heights changes from one execution of
\* __find_spikes to the next
RECURSIVE ByHeightUnstable(_, _)
ByHeightUnstable(y, peaks) ==
    IF peaks = {} THEN << >>
    ELSE LET top == CHOOSE p \in peaks :
                       \A q \in peaks :
                          \/ y[q + 1] < y[p + 1]
                          \/ /\ y[q + 1] = y[p + 1]
                             /\ IF find_spikes_calls % 2 = 0 THEN q <= p
                                ELSE p <= q
         IN <<top>> \o ByHeightUnstable(y, peaks \ {top})

\* peaks[np.argsort(y[peaks])][::-1]: highest first
RECURSIVE ByHeight(_, _)
ByHeight(y, peaks) ==
    IF peaks = {} THEN << >>
    ELSE LET top == CHOOSE p \in peaks :
                       \A q \in peaks :
                          \/ y[q + 1] < y[p + 1]
                          \/ (y[q + 1] = y[p + 1] /\ q <= p)
         IN <<top>> \o ByHeight(y, peaks \ {top})

\* each peak still standing removes the peaks within min_dist of it
RECURSIVE Thin(_, _)
Thin(order, standing) ==
    IF order = << >> THEN standing
    ELSE LET p == Head(order)
         IN IF p \in standing
            THEN Thin(Tail(order),
                      { q \in standing :
                          q = p \/ q < p - MinDist \/ q > p + MinDist })
            ELSE Thin(Tail(order), standing)

\* the peak indices, ascending
Indexes(y) ==
    LET peaks == RawPeaks(y)
        kept == IF Cardinality(peaks) > 1 /\ MinDist > 1
                THEN Thin(ByHeight(y, peaks), peaks)
                ELSE peaks
    IN SelectSeq(Arange(Len(y)), LAMBDA i : i \in kept)

\* lines 63-89 ---------------------------------------------------------------

SpikeRow(cell) ==
    LET idx == Indexes(cell)
    IN [t \in 1..Len(cell) |->
          IF \E k \in 1..Len(idx) : idx[k] = t - 1 THEN 1 ELSE 0]

\* lines 86-88: the three sections of one cell's peak indices
\* a variant whose last section starts one frame late
Section3Late(idx, before, len) == SelectSeq(idx, LAMBDA i : i > before + len)

Section1(idx, before) == SelectSeq(idx, LAMBDA i : i < before)
Section2(idx, before, len) ==
    SelectSeq(idx, LAMBDA i : i >= before /\ i < before + len)
Section3(idx, before, len) == SelectSeq(idx, LAMBDA i : i >= before + len)

\* line 83: for a totally flat signal peakutils.indexes returns np.array([]),
\* an array of floats
ReturnsFloats(cell) == IsFlat(cell)

\* the first row (from 1) at which line 84 raises IndexError, an array of
\* floats being no index; the number of rows plus one when none does
FirstRaising(d) ==
    IF \E r \in 1..Len(d) : ReturnsFloats(d[r])
    THEN CHOOSE r \in 1..Len(d) :
            /\ ReturnsFloats(d[r])
            /\ \A q \in 1..(r - 1) : ~ReturnsFloats(d[q])
    ELSE Len(d) + 1

\* lines 69-84: all_spikes starts as zeros and gets the rows of the cells
\* the loop went through
SpikesOf(d) ==
    [tag |-> "ndarray",
     a |-> [r \in 1..Len(d) |->
              IF r < FirstRaising(d) THEN SpikeRow(d[r])
              ELSE [t \in 1..Len(d[r]) |-> 0]]]

\* lines 85-89: the three lists __find_spikes returns
SectionsOf(d, before, len) ==
    [before |-> [r \in 1..Len(d) |-> Section1(Indexes(d[r]), before)],
     during |-> [r \in 1..Len(d) |-> Section2(Indexes(d[r]), before, len)],
     after |-> [r \in 1..Len(d) |-> Section3(Indexes(d[r]), before, len)]]

\* lines 63-89, as run() calls it
FindSpikes ==
    /\ run_pc = "find_spikes"
    /\ find_spikes_calls' = find_spikes_calls + 1
    /\ all_spikes' = SpikesOf(dff.a)
    /\ IF FirstRaising(dff.a) <= Len(dff.a)
       THEN /\ run_pc' = "raised"
            /\ run_error' = [stage |-> "find_spikes", kind |-> "IndexError",
                             file |-> 0]
            /\ UNCHANGED idx_sections
       ELSE /\ idx_sections' = SectionsOf(dff.a, frames_before_stim,
                                          len_of_epoch_in_frames)
            /\ run_pc' = "calc_firing_rate"
            /\ UNCHANGED run_error
    /\ UNCHANGED <<foldername, frames_before_stim, len_of_epoch_in_frames,
                   invalid_cells, all_mice, all_data, dff, split_data, plots,
                   returned>>

\* lines 63-89, executed once more on the same object after run() is over
FindSpikesAgain ==
    /\ run_pc \in {"returned", "raised"}
    /\ all_spikes # Unset
    /\ find_spikes_calls < MaxFindSpikesCalls
    /\ find_spikes_calls' = find_spikes_calls + 1
    /\ all_spikes' = SpikesOf(dff.a)
    /\ idx_sections' = IF FirstRaising(dff.a) <= Len(dff.a) THEN idx_sections
                       ELSE SectionsOf(dff.a, frames_before_stim,
                                       len_of_epoch_in_frames)
    /\ UNCHANGED <<foldername, frames_before_stim, len_of_epoch_in_frames,
                   invalid_cells, all_mice, all_data, dff, split_data, plots,
                   run_pc, run_error, returned>>

\* lines 99-102: one row per cell (index 0..n-1), one column per section
FiringRateTable(sections) ==
    [r \in 1..Len(sections.before) |->
        [cell |-> r - 1,
         before |-> Len(sections.before[r]),
         during |-> Len(sections.during[r]),
         after |-> Len(sections.after[r])]]

\* line 105: df.drop(labels) raises KeyError when a label is not in the index
DropRaises(df, labels) ==
    \E c \in labels : \A r \in 1..Len(df) : df[r].cell # c

\* a variant of drop that leaves the rows of the named cells in the table
DropNothing(df, labels) == df

Drop(df, labels) == SelectSeq(df, LAMBDA row : row.cell \notin labels)

\* line 106: df.stack(): for each remaining cell its three counts
Stack(df) ==
    [tag |-> "Series",
     rows |-> [i \in 1..(3 * Len(df)) |->
                 LET row == df[((i - 1) \div 3) + 1]
                     col == <<"before", "during", "after">>[((i - 1) % 3) + 1]
                 IN [cell |-> row.cell, epoch |-> col, value |-> row[col]]]]

\* lines 107-110: MultiComparison(...).tukeyhsd() and psturng belong to
\* statsmodels; with fewer than two cells left no within-group variance
\* exists and the call may raise
TukeyOutcomes(df) == IF Len(df) >= 2 THEN {"ok"} ELSE {"ok", "error"}

\* lines 91-111
CalcFiringRate ==
    /\ run_pc = "calc_firing_rate"
    /\ LET df == FiringRateTable(idx_sections)
       IN IF DropRaises(df, invalid_cells)
          THEN /\ run_pc' = "raised"
               /\ run_error' = [stage |-> "calc_firing_rate",
                                kind |-> "KeyError", file |-> 0]
               /\ UNCHANGED split_data
          ELSE /\ split_data' = Stack(Drop(df, invalid_cells))
               /\ \E outcome \in TukeyOutcomes(Drop(df, invalid_cells)) :
                    IF outcome = "ok"
                    THEN run_pc' = "scatter_spikes" /\ UNCHANGED run_error
                    ELSE /\ run_pc' = "raised"
                         /\ run_error' = [stage |-> "calc_firing_rate",
                                          kind |-> "StatsError", file |-> 0]
    /\ UNCHANGED <<foldername, frames_before_stim, len_of_epoch_in_frames,
                   invalid_cells, all_mice, all_data, dff, all_spikes,
                   idx_sections, plots, returned,
                   find_spikes_calls>>

\* lines 113-134
ScatterSpikes ==
    /\ run_pc = "scatter_spikes"
    /\ plots' = Append(plots, "spike_scatter.pdf")
    /\ run_pc' = "rolling_window"
    /\ UNCHANGED <<foldername, frames_before_stim, len_of_epoch_in_frames,
                   invalid_cells, all_mice, all_data, dff, all_spikes,
                   idx_sections, split_data, run_error, returned,
                   find_spikes_calls>>

\* lines 136-145, then line 35: return self.dff
RollingWindow ==
    /\ run_pc = "rolling_window"
    /\ plots' = Append(plots, "mean_spike_rate.pdf")
    /\ returned' = dff
    /\ run_pc' = "returned"
    /\ UNCHANGED <<foldername, frames_before_stim, len_of_epoch_in_frames,
                   invalid_cells, all_mice, all_data, dff, all_spikes,
                   idx_sections, split_data, run_error,
                   find_spikes_calls>>

NextVasc ==
    \/ FindAllFiles /\ UNCHANGED <<fovVars, vizVars, sideVars>>
    \/ CalcDffFile /\ UNCHANGED <<fovVars, vizVars, sideVars>>
    \/ CalcDffConcat /\ UNCHANGED <<fovVars, vizVars, sideVars>>
    \/ FindSpikes /\ UNCHANGED <<fovVars, vizVars, sideVars>>
    \/ FindSpikesAgain /\ UNCHANGED <<fovVars, vizVars, sideVars>>
    \/ CalcFiringRate /\ UNCHANGED <<fovVars, vizVars, sideVars>>
    \/ ScatterSpikes /\ UNCHANGED <<fovVars, vizVars, sideVars>>
    \/ RollingWindow /\ UNCHANGED <<fovVars, vizVars, sideVars>>

NoError == [stage |-> "none", kind |-> "none", file |-> 0]

\* the lists invalid_cells may be: runs of consecutive cell labels, some of
\* which name no row of the table
InvalidCellLists ==
    { c..(c + k - 1) : c \in 0..(MaxFiles + MaxCellsPerFile), k \in 0..MaxInvalid }

InitVascWith(fs, inv) ==
    /\ foldername = fs
    /\ frames_before_stim = FramesBeforeStim
    /\ len_of_epoch_in_frames = LenOfEpochInFrames
    /\ invalid_cells = inv
    /\ all_mice = << >>
    /\ all_data = << >>
    /\ dff = Unset
    /\ all_spikes = Unset
    /\ idx_sections = [before |-> << >>, during |-> << >>, after |-> << >>]
    /\ split_data = Unset
    /\ plots = << >>
    /\ run_error = NoError
    /\ returned = Unset
    /\ find_spikes_calls = 0

InitVasc ==
    /\ \E fs \in Folders, inv \in InvalidCellLists : InitVascWith(fs, inv)
    /\ run_pc = "find_all_files"

InitVascIdle ==
    /\ InitVascWith(<< >>, {})
    /\ run_pc = "none"

\* no SingleFovParser in the VascOccAnalysis script
-----------------------------------------------------------------------------
(* examples/side_by_side.py *)

MaxShowCalls == 2

\* a path as its stem and its suffix; str(path)
Path(stem, ext) == [stem |-> stem, ext |-> ext]
Str(path) == path.stem \o path.ext

\* line 13
CACHE_FOLDER == Path(".cache/ca_analysis_bloodflow", "")

\* the files of the recording, and paths typed into the form that are not there
RecordingFiles ==
    {Path("ch1", ".tif"), Path("ch2", ".tif"), Path("results", ".npz")}

Ch1Inputs == {Path("ch1", ".tif"), Path("nothing1", ".tif")}
Ch2Inputs == {Path("ch2", ".tif"), Path("nothing2", ".tif")}
ResultsInputs == {Path("results", ".npz"), Path("nothing", ".npz")}

\* the frames typed into the form: all of them, or a range
FramesInputs == {"", "0,2"}

\* pathlib.Path.exists
Exists(path) == Str(path) \in files

\* line 86
NewFname(ch1_fname, ch2_fname) ==
    "combined_" \o ch1_fname.stem \o "_" \o ch2_fname.stem \o ".tif"

\* lines 17-25: the cache file is written when the cache folder exists
WriteToCache(folder, data) ==
    IF ~Exists(folder) THEN cache ELSE data

\* line 79: the dictionary handed to write_to_cache
CacheData(ch1_fname, ch1_frames, ch2_fname, ch2_frames, res_fname) ==
    [ch1_fname |-> Str(ch1_fname), ch1_frames |-> ch1_frames,
     ch2_fname |-> Str(ch2_fname), ch2_frames |-> ch2_frames,
     results_fname |-> Str(res_fname), cell_radius |-> 6]

\* lines 66-90, one press of the Show button
OverlayChannelsAndShowTraces ==
    /\ side_calls < MaxShowCalls
    /\ side_calls' = side_calls + 1
    /\ \E ch1_fname \in Ch1Inputs, ch2_fname \in Ch2Inputs,
          res_fname \in ResultsInputs,
          ch1_frames \in FramesInputs, ch2_frames \in FramesInputs :
          /\ side_args' = [ch1_fname |-> ch1_fname, ch1_frames |-> ch1_frames,
                           ch2_fname |-> ch2_fname, ch2_frames |-> ch2_frames,
                           results_fname |-> res_fname]
          /\ IF ~Exists(ch1_fname)
             THEN /\ side_returned' = "Channel 1 path doesn't exist"
                  /\ side_effects' = << >>
                  /\ UNCHANGED <<files, cache>>
             \* line 72 tests ch1_fname once more
             ELSE IF ~Exists(ch1_fname)
             THEN /\ side_returned' = "Channel 2 path doesn't exist"
                  /\ side_effects' = << >>
                  /\ UNCHANGED <<files, cache>>
             ELSE IF ~Exists(res_fname)
             THEN /\ side_returned' = "Results path doesn't exist"
                  /\ side_effects' = << >>
                  /\ UNCHANGED <<files, cache>>
             ELSE /\ cache' = WriteToCache(CACHE_FOLDER,
                                 CacheData(ch1_fname, ch1_frames, ch2_fname,
                                           ch2_frames, res_fname))
                  /\ IF ~Exists(ch2_fname)
                     \* line 82: tifffile.imread raises FileNotFoundError
                     THEN /\ side_effects' =
                               (IF Exists(CACHE_FOLDER)
                                THEN <<"write_to_cache">> ELSE << >>)
                               \o <<"imread ch1">>
                          /\ side_returned' = "FileNotFoundError"
                          /\ UNCHANGED files
                     ELSE /\ side_effects' =
                               (IF Exists(CACHE_FOLDER)
                                THEN <<"write_to_cache">> ELSE << >>)
                               \o <<"imread ch1", "imread ch2", "imwrite",
                                     "show_side_by_side">>
                          /\ files' = files \cup {NewFname(ch1_fname, ch2_fname)}
                          /\ side_returned' = NewFname(ch1_fname, ch2_fname)

NextSide == OverlayChannelsAndShowTraces /\ UNCHANGED <<fovVars, vizVars, vascVars>>

\* the recording is on disk; the cache folder, made at import (line 14), may
\* have been removed since, or hold the cache of an earlier session
InitSide ==
    /\ \E more \in SUBSET {Str(CACHE_FOLDER)} :
          files = { Str(f) : f \in RecordingFiles } \cup more
    /\ cache \in {Unset,
                  CacheData(Path("ch1", ".tif"), "", Path("ch2", ".tif"), "",
                            Path("results", ".npz"))}
    /\ (Str(CACHE_FOLDER) \notin files => cache = Unset)
    /\ side_args = Unset
    /\ side_effects = << >>
    /\ side_returned = "none"
    /\ side_calls = 0

InitSideIdle ==
    /\ files = {}
    /\ cache = Unset
    /\ side_args = Unset
    /\ side_effects = << >>
    /\ side_returned = "none"
    /\ side_calls = 0

InitFovIdle ==
    /\ results_fname = [F_dff |-> << >>]
    /\ metadata = [fname |-> <<"f", "1">> \o TifExt, timestamps |-> << >>,
                   fps |-> 30, mouse_id |-> "m1", fov |-> 1,
                   condition |-> "HYPER", day |-> 14]
    /\ with_analog = TRUE
    /\ summarize_in_plot = FALSE
    /\ analog_fname = Unset
    /\ analog_data = Unset
    /\ analog_analyzed = Unset
    /\ fluo_trace = Unset
    /\ fluo_analyzed = Unset
    /\ disk = << >>
    /\ events = << >>
    /\ pc = "none"
    /\ ser_calls = 0
    /\ ser_result = "none"

-----------------------------------------------------------------------------
(* Specifications *)

vars == <<fovVars, vizVars, vascVars, sideVars>>

\* SingleFovParser: parse, then add_metadata_and_serialize
Init == InitFov /\ InitVizIdle /\ InitVascIdle /\ InitSideIdle

Next == NextFov

Spec == Init /\ [][Next]_vars

\* parse of either module
NextParsers ==
    \/ Parse /\ UNCHANGED <<vizVars, vascVars, sideVars>>
    \/ ParseLegacy /\ UNCHANGED <<vizVars, vascVars, sideVars>>

SpecParsers == Init /\ [][NextParsers]_vars

\* parse followed by a call of filter_da on its result
NextFilter ==
    \/ Parse /\ UNCHANGED <<vizVars, vascVars, sideVars>>
    \/ FilterDa /\ UNCHANGED <<fovVars, vascVars, sideVars>>

SpecFilter == Init /\ [][NextFilter]_vars

\* SingleFovViz: construction, then _create_rect_patches
ExampleInit == InitExample /\ InitVizIdle /\ InitVascIdle /\ InitSideIdle

SpecExample == ExampleInit /\ [][Next]_vars

VizInit == InitViz /\ InitVascIdle /\ InitSideIdle

SpecViz == VizInit /\ [][NextViz]_vars

\* VascOccAnalysis.run
VascInit == InitFovIdle /\ InitVizIdle /\ InitVasc /\ InitSideIdle

SideInit == InitFovIdle /\ InitVizIdle /\ InitVascIdle /\ InitSide

SpecSide == SideInit /\ [][NextSide]_vars

SpecVasc == VascInit /\ [][NextVasc]_vars


-----------------------------------------------------------------------------
\* Properties of SingleFovParser

\* the element of a labelled array at positions e, n, t of its named axes
At(da, e, n, t) ==
    LET ix == [d \in {"epoch", "neuron", "time"} |->
                  IF d = "epoch" THEN e ELSE IF d = "neuron" THEN n ELSE t]
    IN da.data[ix[da.dims[1]]][ix[da.dims[2]]][ix[da.dims[3]]]

Epochs(da) == 1..Len(da.coords.epoch)
Neurons(da) == 1..Len(da.coords.neuron)
Frames(da) == 1..Len(da.coords.time)

\* the epoch slices that hold a value at cell n, frame t
NonMissing(da, n, t) == { e \in Epochs(da) : ~IsNaN(At(da, e, n, t)) }

Aligned == fluo_analyzed.tag = "DataArray"

C2_ZeroCellShortCircuit ==
    (pc # "constructed" /\ NumCells(results_fname.F_dff) = 0) =>
        /\ pc = "parsed"
        /\ fluo_analyzed = None
        /\ analog_data = Unset
        /\ analog_analyzed = Unset
        /\ events = <<>>
        /\ \A name \in DOMAIN disk : disk[name] = EarlierFile

\* parse has returned for a zero-cell tensor with analog alignment and the
\* summary figure both requested
C2_Witness ==
    /\ pc = "parsed"
    /\ NumCells(results_fname.F_dff) = 0
    /\ with_analog
    /\ summarize_in_plot
    /\ fluo_analyzed = None

\* C6: a frame whose sample lies inside both a stimulus interval and a juxta
\* interval of the analog file is labelled juxta: the dF/F value of every
\* cell sits in the juxta slice of the frame's locomotion state and every
\* stim and spont slice is missing there
InChannel(vec, t) ==
    vec[SampleOfFrame(metadata.timestamps[t], analog_data.rate, Len(vec)) + 1] = 1

EpochsNamed(da, suffix) ==
    { e \in Epochs(da) : \E loc \in {"stand", "run"} :
                            da.coords.epoch[e] = Join(<<loc, suffix>>) }

C6_JuxtaBeforeStim ==
    (Aligned /\ with_analog) =>
        \A t \in Frames(fluo_analyzed) :
            (InChannel(analog_data.stimulus, t) /\ InChannel(analog_data.juxta, t)) =>
                \A n \in Neurons(fluo_analyzed) :
                    /\ \A e \in EpochsNamed(fluo_analyzed, "stim") \cup
                                 EpochsNamed(fluo_analyzed, "spont") :
                          IsNaN(At(fluo_analyzed, e, n, t))
                    /\ ~IsNaN(fluo_trace.a[n][t]) =>
                          \E e \in EpochsNamed(fluo_analyzed, "juxta") :
                              /\ fluo_analyzed.coords.epoch[e] =
                                    Join(<<Locomotion(analog_analyzed, t), "juxta">>)
                              /\ At(fluo_analyzed, e, n, t) = fluo_trace.a[n][t]

\* C6, second half: stim wins over spont, and a frame in neither interval is
\* spont
C6_Precedence ==
    (Aligned /\ with_analog) =>
        \A t \in Frames(fluo_analyzed), n \in Neurons(fluo_analyzed) :
            LET state == IF InChannel(analog_data.juxta, t) THEN "juxta"
                         ELSE IF InChannel(analog_data.stimulus, t) THEN "stim"
                         ELSE "spont"
            IN /\ \A e \in Epochs(fluo_analyzed) \ EpochsNamed(fluo_analyzed, state) :
                      IsNaN(At(fluo_analyzed, e, n, t))
               /\ ~IsNaN(fluo_trace.a[n][t]) =>
                      \E e \in EpochsNamed(fluo_analyzed, state) :
                          At(fluo_analyzed, e, n, t) = fluo_trace.a[n][t]

RaisedOutcomes == {"ValueError", "AttributeError"}

C9_NoDataSerializeIsQuiet ==
    [][(/\ ser_calls' = ser_calls + 1
        /\ fluo_analyzed = None
        /\ NcName(metadata.fname) \notin DOMAIN disk)
            => (ser_result' \notin RaisedOutcomes /\ disk' = disk)]_vars

\* the call has returned in the no-data state and there is no file
C9_Witness ==
    /\ ser_calls > 0
    /\ fluo_analyzed = None
    /\ ser_result = "no_data"
    /\ NcName(metadata.fname) \notin DOMAIN disk

\* C3: a call of add_metadata_and_serialize made while the persisted file of
\* the FOV exists writes nothing and leaves the folder as it was
C3_WriteIfAbsent ==
    [][(/\ ser_calls' = ser_calls + 1
        /\ NcName(metadata.fname) \in DOMAIN disk)
            => disk' = disk]_vars

\* C3, the consequence: after two or more calls for the same FOV there is
\* a persisted file for it
C3_OneFileAfterTwoCalls ==
    ser_calls >= 2 => NcName(metadata.fname) \in DOMAIN disk

\* what holds of the code: a call made while some file matches the glob
\* pattern of the FOV writes nothing
C3_WriteIfNoMatch ==
    [][(/\ ser_calls' = ser_calls + 1
        /\ Glob(disk, NcPattern(metadata.fname)) # {})
            => (ser_result' = "exists" /\ disk' = disk)]_vars

\* C8: whichever branch produced the aligned array, a call that finds no
\* persisted file writes an array whose axes are, in order, epoch, neuron,
\* time, mouse_id, fov, condition, each axis as long as its coordinate, whose
\* time coordinate is the metadata timestamps, and whose element at (epoch,
\* neuron, time) is the element of the aligned array at those labels
PersistedAs(file, fa, md) ==
    /\ file.tag = "DataArray"
    /\ file.dims = SerializedDims
    /\ \A i \in 1..6 : file.shape[i] = Len(file.coords[SerializedDims[i]])
    /\ file.coords.epoch = fa.coords.epoch
    /\ file.coords.neuron = fa.coords.neuron
    /\ file.coords.time = md.timestamps
    /\ \A e \in Epochs(fa), n \in Neurons(fa), t \in Frames(fa) :
          file.data[e][n][t] = At(fa, e, n, t)

C8_PersistedAxes ==
    [][(/\ ser_calls' = ser_calls + 1
        /\ Aligned
        /\ Glob(disk, NcPattern(metadata.fname)) = {})
            => (/\ ser_result' = "written"
                /\ NcName(metadata.fname) \in DOMAIN disk'
                /\ PersistedAs(disk'[NcName(metadata.fname)],
                               fluo_analyzed, metadata))]_vars

\* what holds of the code: the with-analog branch is persisted that way
C8_PersistedAxesWithAnalog ==
    [][(/\ ser_calls' = ser_calls + 1
        /\ Aligned
        /\ with_analog
        /\ Glob(disk, NcPattern(metadata.fname)) = {})
            => (/\ ser_result' = "written"
                /\ NcName(metadata.fname) \in DOMAIN disk'
                /\ PersistedAs(disk'[NcName(metadata.fname)],
                               fluo_analyzed, metadata))]_vars

-----------------------------------------------------------------------------
\* Properties of SingleFovViz._create_rect_patches

\* the bouts of a 0/1 vector: its maximal runs of 1, as (first active sample,
\* last active sample) counted from 0, in order
FirstSamples(vec) ==
    SelectSeq(Arange(Len(vec)),
              LAMBDA i : vec[i + 1] = 1 /\ (i = 0 \/ vec[i] = 0))

LastSamples(vec) ==
    SelectSeq(Arange(Len(vec)),
              LAMBDA i : vec[i + 1] = 1 /\ (i = Len(vec) - 1 \/ vec[i + 2] = 0))

TrueBouts(vec) == Zip(FirstSamples(vec), LastSamples(vec))

Abs(x) == IF x < 0 THEN 0 - x ELSE x

PatchesOf(idx) == SelectSeq(all_patches, LAMBDA patch : patch.color = idx)

\* C7: for every activity vector the patches drawn for it are as many as its
\* bouts, the starts found are as many as the ends, every patch has
\* start < end, and the i-th patch lies within one sample of the i-th bout,
\* also for a bout active at the first or at the last sample
C7_EdgeDetectionSymmetry ==
    viz_pc = "patched" =>
        \A idx \in 1..Len(analog_vectors.l) :
            LET vec == analog_vectors.l[idx]
                bouts == TrueBouts(vec)
                drawn == PatchesOf(idx - 1)
            IN /\ Len(Where(Diff(vec), 1)) = Len(Where(Diff(vec), -1))
               /\ Len(drawn) = Len(bouts)
               /\ \A i \in 1..Len(drawn) :
                     /\ drawn[i].width.num > 0
                     /\ Abs(drawn[i].x.num - bouts[i][1]) <= 1
                     /\ Abs(drawn[i].x.num + drawn[i].width.num - bouts[i][2]) <= 1

\* what holds of the code: the same for vectors that are inactive at the
\* first sample, a bout still active at the last sample included
C7_SymmetryAfterQuietStart ==
    viz_pc = "patched" =>
        \A idx \in 1..Len(analog_vectors.l) :
            LET vec == analog_vectors.l[idx]
                bouts == TrueBouts(vec)
                drawn == PatchesOf(idx - 1)
            IN vec[1] = 0 =>
                 /\ Len(Where(Diff(vec), 1)) = Len(Where(Diff(vec), -1))
                 /\ Len(drawn) = Len(bouts)
                 /\ \A i \in 1..Len(drawn) :
                       /\ drawn[i].width.num > 0
                       /\ Abs(drawn[i].x.num - bouts[i][1]) <= 1
                       /\ Abs(drawn[i].x.num + drawn[i].width.num - bouts[i][2]) <= 1

-----------------------------------------------------------------------------
\* Properties of VascOccAnalysis.run

\* the files of the folder that load, and the cells they hold, in order
LoadedCells ==
    Concatenate([i \in 1..Len(foldername) |-> foldername[i].cells])

\* C4: a result file that fails to load or detrend does not end run(): the
\* loop goes on and dff holds the cells of every file that loads
C4_PerFileIsolation ==
    /\ ~(run_pc = "raised" /\ run_error.kind = "LoadError")
    /\ (dff # Unset /\ \E i \in 1..Len(foldername) : ~foldername[i].ok)
          => dff.a = LoadedCells

\* what holds of the code: the first file that fails ends run() with that
\* file's error and dff is never assigned
C4_FirstFailureEndsRun ==
    (\E i \in 1..Len(foldername) : ~foldername[i].ok) =>
        /\ dff = Unset
        /\ run_pc \notin {"find_spikes", "calc_firing_rate", "scatter_spikes",
                          "rolling_window", "returned"}

\* C5: once __calc_firing_rate has run, split_data has no row for a cell of
\* invalid_cells and a row for every other cell, while dff, the value run
\* returns and all_spikes keep one row for every cell of every loaded file,
\* the rows of the invalid cells included
C5_InvalidOnlyFromComparison ==
    (run_pc \in {"scatter_spikes", "rolling_window", "returned"}) =>
        /\ \A i \in 1..Len(split_data.rows) :
              split_data.rows[i].cell \notin invalid_cells
        /\ \A c \in 0..(Len(dff.a) - 1) :
              c \notin invalid_cells =>
                  \E i \in 1..Len(split_data.rows) : split_data.rows[i].cell = c
        /\ dff.a = LoadedCells
        /\ Len(all_spikes.a) = Len(LoadedCells)
        /\ \A r \in 1..Len(LoadedCells) :
              all_spikes.a[r] = SpikeRow(LoadedCells[r])
        /\ run_pc = "returned" => returned = dff

\* run() has returned for two files of three cells in all, one of them listed
\* as invalid
C5_Witness ==
    /\ run_pc = "returned"
    /\ Len(foldername) = 2
    /\ Len(dff.a) = 3
    /\ invalid_cells = {1}
    /\ Len(split_data.rows) = 6
    /\ Len(returned.a) = 3

\* C10: a comparison that cannot be computed because invalid_cells names a
\* cell that does not exist does not end run() with an exception
C10_StatisticsDegrade ==
    ~(run_pc = "raised" /\ run_error.kind = "KeyError")

\* what holds of the code: whenever invalid_cells names a cell that is not a
\* row of the table, run() never reaches the plots nor returns
C10_MissingLabelEndsRun ==
    (\E c \in invalid_cells : c >= Len(LoadedCells)) =>
        run_pc \notin {"scatter_spikes", "rolling_window", "returned"}

-----------------------------------------------------------------------------
\* The end-to-end example

\* the label of a frame (from 0) in the example
ExpectedLabel(f) ==
    IF 40 <= f /\ f < 50 THEN "run_stim"
    ELSE IF 30 <= f /\ f < 60 THEN "run_spont"
    ELSE "stand_spont"

\* C12: in the example exactly the frames [30, 60) are run frames, of which
\* exactly [40, 50) are run_stim and the others run_spont, every other frame
\* is stand_spont, and each measured dF/F value sits in the slice of its
\* frame's label and in no other
C12_EndToEndExample ==
    (Aligned /\ analog_data = ExampleAnalog
             /\ NumFrames(fluo_trace.a) = ExampleFrames) =>
        \A t \in 1..ExampleFrames :
            /\ FrameLabel(analog_analyzed, t) = ExpectedLabel(t - 1)
            /\ \A n \in Neurons(fluo_analyzed) :
                  ~IsNaN(fluo_trace.a[n][t]) =>
                      { fluo_analyzed.coords.epoch[e] :
                          e \in NonMissing(fluo_analyzed, n, t) }
                        = {ExpectedLabel(t - 1)}

\* the example was parsed with three cells; frame 45 of the last cell sits in
\* the run_stim slice and frame 59 in the run_spont slice
C12_Witness ==
    /\ Aligned
    /\ analog_data = ExampleAnalog
    /\ NumCells(fluo_trace.a) = ExampleCells
    /\ NumFrames(fluo_trace.a) = ExampleFrames
    /\ \E e \in Epochs(fluo_analyzed) :
          /\ fluo_analyzed.coords.epoch[e] = "run_stim"
          /\ ~IsNaN(At(fluo_analyzed, e, ExampleCells, 46))
    /\ \E e \in Epochs(fluo_analyzed) :
          /\ fluo_analyzed.coords.epoch[e] = "run_spont"
          /\ ~IsNaN(At(fluo_analyzed, e, ExampleCells, 60))

-----------------------------------------------------------------------------
\* No-data results

\* C13: whenever parse has returned for a tensor with at least one cell, the
\* result is not the no-data result and it holds every cell of the tensor
C13_NoDataOnlyForZeroCells ==
    (pc = "parsed" /\ NumCells(results_fname.F_dff) >= 1) =>
        /\ fluo_analyzed # None
        /\ Aligned
        /\ Len(fluo_analyzed.coords.neuron) = NumCells(results_fname.F_dff)

\* what the code does: with at least one cell the no-data result arises
\* exactly for a tensor of one element that is zero
C13_NoDataForOneZeroElement ==
    (pc = "parsed" /\ NumCells(results_fname.F_dff) >= 1) =>
        IF Size(results_fname.F_dff) = 1
           /\ ~IsNaN(results_fname.F_dff[1][1])
           /\ results_fname.F_dff[1][1].v = 0
        THEN fluo_analyzed = None /\ NumCells(fluo_trace.a) = 0
        ELSE /\ Aligned
             /\ Len(fluo_analyzed.coords.neuron) = NumCells(results_fname.F_dff)

-----------------------------------------------------------------------------
\* Spike sections

\* the members of a sequence of indices
Members(idx) == { idx[k] : k \in 1..Len(idx) }

\* the number of ones in a row of all_spikes
Ones(row) == Cardinality({ t \in 1..Len(row) : row[t] = 1 })

\* __find_spikes went through every cell and returned its three lists
FoundSpikes == find_spikes_calls >= 1 /\ FirstRaising(dff.a) > Len(dff.a)

\* C14: once __find_spikes has returned, for every cell each detected peak is
\* in exactly one of the three sections, the one of its range; the counts
\* of the firing-rate table sum to the ones of the cell's row of all_spikes;
\* and that row is 1 exactly at the detected indices and 0 elsewhere
C14_SectionsPartitionSpikes ==
    FoundSpikes =>
        \A r \in 1..Len(dff.a) :
            LET idx == Members(Indexes(dff.a[r]))
                b == Members(idx_sections.before[r])
                d == Members(idx_sections.during[r])
                a == Members(idx_sections.after[r])
                after_stim == frames_before_stim + len_of_epoch_in_frames
                row == FiringRateTable(idx_sections)[r]
            IN /\ b \cup d \cup a = idx
               /\ b \cap d = {} /\ b \cap a = {} /\ d \cap a = {}
               /\ \A i \in b : i < frames_before_stim
               /\ \A i \in d : frames_before_stim <= i /\ i < after_stim
               /\ \A i \in a : i >= after_stim
               /\ row.before + row.during + row.after = Ones(all_spikes.a[r])
               /\ \A t \in 1..Len(dff.a[r]) :
                     all_spikes.a[r][t] = (IF (t - 1) \in idx THEN 1 ELSE 0)

\* spikes were found in a recording with a cell that spikes on the first
\* frame of the epoch after the stimulus and a cell with one spike before
\* the stimulus and one after it
C14_Witness ==
    /\ FoundSpikes
    /\ run_pc \in {"calc_firing_rate", "scatter_spikes", "returned"}
    /\ \E r \in 1..Len(dff.a) :
          /\ idx_sections.after[r]
               = <<frames_before_stim + len_of_epoch_in_frames>>
          /\ idx_sections.during[r] = << >>
    /\ \E r \in 1..Len(dff.a) :
          /\ Len(idx_sections.before[r]) = 1
          /\ Len(idx_sections.after[r]) = 1
          /\ Ones(all_spikes.a[r]) = 2

-----------------------------------------------------------------------------
\* filter_da

\* the cells of the epoch's slice that have a finite value, in their order
FiniteCells(da, epoch) == SelectSeq(SelEpoch(da, epoch), AnyFinite)

\* C15: filter_da returns the rows of the cells that have a finite value in
\* the epoch, in their order, as an array of that many rows and one column
\* per time point, and an array of shape (0,) when there is no such cell
C15_FilterDaCellsByTime ==
    filtered # Unset =>
        LET rows == FiniteCells(fluo_analyzed, filtered.epoch)
        IN IF Len(rows) = 0
           THEN filtered.out.shape = <<0>>
           ELSE /\ filtered.out.shape
                     = <<Len(rows), Len(fluo_analyzed.coords.time)>>
                /\ filtered.out.a = rows

\* what the code does: the rows are the cells with a finite value unless the
\* array has one time point and several cells
C15_CellsByTimeUnlessOneFrame ==
    (/\ filtered # Unset
     /\ (Len(fluo_analyzed.coords.time) > 1
           \/ Len(fluo_analyzed.coords.neuron) = 1)) =>
        LET rows == FiniteCells(fluo_analyzed, filtered.epoch)
        IN IF Len(rows) = 0
           THEN filtered.out.shape = <<0>>
           ELSE /\ filtered.out.shape
                     = <<Len(rows), Len(fluo_analyzed.coords.time)>>
                /\ filtered.out.a = rows

-----------------------------------------------------------------------------
\* The branch without analog data

\* the array of the branch without analog data, position by position
IsSpontArrayOf(da, trace) ==
    /\ da.tag = "DataArray"
    /\ da.dims = <<"neuron", "time", "epoch">>
    /\ da.coords.epoch = <<"spont">>
    /\ Len(da.data) = NumCells(trace)
    /\ \A n \in 1..NumCells(trace) :
          /\ Len(da.data[n]) = NumFrames(trace)
          /\ \A t \in 1..NumFrames(trace) : da.data[n][t] = <<trace[n][t]>>
    /\ da.coords.time
         = [t \in 1..NumFrames(trace) |-> Frac(t - 1, metadata.fps)]
    /\ da.attrs = [fps |-> metadata.fps, stim_window |-> Frac(3, 2)]

\* C16: after parse without analog data of a tensor with at least one cell
\* the analog file was not read and the result is the array over (neuron,
\* time, epoch) with the one epoch spont that holds the tensor's values
C16_WithoutAnalogBranch ==
    (/\ pc # "constructed"
     /\ ~with_analog
     /\ NumCells(results_fname.F_dff) >= 1) =>
        /\ analog_data = Unset
        /\ analog_analyzed = Unset
        /\ \A k \in 1..Len(events) : events[k] # "read_csv"
        /\ IsSpontArrayOf(fluo_analyzed, results_fname.F_dff)

\* what the code does: the same, unless the tensor is one element that is 0
C16_WithoutAnalogUnlessOneZero ==
    (/\ pc # "constructed"
     /\ ~with_analog
     /\ NumCells(results_fname.F_dff) >= 1
     /\ NumCells(fluo_trace.a) >= 1) =>
        /\ analog_data = Unset
        /\ analog_analyzed = Unset
        /\ \A k \in 1..Len(events) : events[k] # "read_csv"
        /\ IsSpontArrayOf(fluo_analyzed, results_fname.F_dff)

-----------------------------------------------------------------------------
\* The result after parse

\* C17: whenever parse of either module has returned, fluo_analyzed has been
\* assigned, an array or the no-data value
C17_ResultDefinedAfterParse ==
    pc \in {"parsed", "legacy_parsed"} => fluo_analyzed # Unset

\* what the code does: parse of calcium_bflow_analysis always assigns it, the
\* earlier parse only when the tensor has cells
C17_DefinedUnlessLegacyWithoutCells ==
    /\ pc = "parsed" => fluo_analyzed # Unset
    /\ pc = "legacy_parsed" =>
          (fluo_analyzed # Unset <=> NumCells(results_fname.F_dff) # 0)

-----------------------------------------------------------------------------
\* overlay_channels_and_show_traces

\* the message for the first of the three paths that does not exist
MissingMessage(args) ==
    IF ~Exists(args.ch1_fname) THEN "Channel 1 path doesn't exist"
    ELSE IF ~Exists(args.ch2_fname) THEN "Channel 2 path doesn't exist"
    ELSE "Results path doesn't exist"

AllExist(args) ==
    Exists(args.ch1_fname) /\ Exists(args.ch2_fname)
        /\ Exists(args.results_fname)

\* C18: a call with a path that does not exist returns that path's message
\* and has no side effect: the cache is not written, no image is read and no
\* combined TIFF is written
C18_ValidationBeforeSideEffects ==
    (side_calls >= 1 /\ ~AllExist(side_args)) =>
        /\ side_returned = MissingMessage(side_args)
        /\ side_effects = << >>

\* what the code does: the same for channel 1 and for the results; a missing
\* channel 2 is met only when its image is read, after the cache was written
C18_ValidationOfChannel1AndResults ==
    (side_calls >= 1 /\ ~AllExist(side_args)) =>
        IF ~Exists(side_args.ch1_fname) \/ ~Exists(side_args.results_fname)
        THEN /\ side_effects = << >>
             /\ side_returned
                  = (IF ~Exists(side_args.ch1_fname)
                     THEN "Channel 1 path doesn't exist"
                     ELSE "Results path doesn't exist")
        ELSE /\ side_returned = "FileNotFoundError"
             /\ side_effects \in {<<"write_to_cache", "imread ch1">>,
                                  <<"imread ch1">>}

====
